---- MODULE Spec2Model ----
(***************************************************************************)
(* Document store (MemStorage), upload handler and the asynchronous        *)
(* document-processing pipeline (processDocumentAsync) of the server,      *)
(* together with the text-extraction and AI-analysis adapters it calls.    *)
(*                                                                         *)
(* Encoding of JavaScript values.  A nullable field holds an option: the   *)
(* empty set None for null/undefined, the singleton Some(v) for a value.   *)
(* The code tests these fields by truthiness only, so null and undefined   *)
(* need not be told apart.  Timestamps are ticks of the clock `now`.       *)
(* Confidence is in hundredths (100 = 1.0), totalAmount in thousandths of  *)
(* a currency unit (12505 = 12.505).                                       *)
(*                                                                         *)
(* Every `await` of an async function is a point where other tasks may     *)
(* run, so each action below is the code between two awaits.               *)
(***************************************************************************)
EXTENDS Integers, FiniteSets, Sequences, TLC

\* ---------------------------------------------------------------- bounds
MaxDocs == 2
MaxTime == 1
MaxClients == 2
MaxTurns == 2

\* ------------------------------------------------------------ JS options
None == {}
Some(x) == {x}
TheValue(o) == CHOOSE x \in o : TRUE

\* ------------------------------------------------------------- constants
DefaultUser == "default-user"
AllowedTypes == {"application/pdf", "image/jpeg", "image/png", "image/jpg"}
\* the media type clients upload in the model; processDocument treats an
\* image like a PDF (read the file, return the recognised text)
UploadTypes == {"application/pdf"}
PdfTypes == {"application/pdf"}
ImageTypes == {"image/jpeg", "image/png", "image/jpg"}
\* a media type multer's filter refuses
RejectedTypes == {"application/zip"}
OriginalName == "invoice.pdf"
FileSize == 1024
StatusValues == {"pending", "processing", "completed", "failed"}
Terminal == {"completed", "failed"}
DocIds == 1..MaxDocs

VARIABLES documents, nextId, runs, files, cleanupCalls, now

\* What the upload route has answered: uploadReplies maps the id of a
\* created document to the JSON body of the response, rejections holds
\* the refused requests.
VARIABLES uploadReplies, rejections

\* The chat service and the chat part of the store:
\*   clients       ChatService.clients, client id -> ChatClient
\*   websockets    readyState of every connection accepted so far
\*   chatSessions  MemStorage.chatSessions, session id -> ChatSession
\*   chatMessages  MemStorage.chatMessages, message id -> ChatMessage
\*   turns         the activations of handleMessage, one per chat message
\*   outbox        the frames each connection has been sent, in order
\*   microtasks    the turns whose awaited promise is settled, in the order
\*                 in which their continuations will run
\*   malformed     the inbound messages that were not chat messages
VARIABLES clients, websockets, chatSessions, chatMessages, turns, outbox,
          microtasks, malformed

chatVars == <<clients, websockets, chatSessions, chatMessages, turns, outbox,
              microtasks, malformed>>

auxVars == <<rejections, chatVars>>

vars == <<documents, nextId, runs, files, cleanupCalls, now, uploadReplies, auxVars>>

\* ------------------------------------------------------------ MemStorage
EmptyMap == [x \in {} |-> None]

MapSet(m, k, v) == [x \in (DOMAIN m) \cup {k} |-> IF x = k THEN v ELSE m[x]]

MapDelete(m, k) == [x \in (DOMAIN m) \ {k} |-> m[x]]

\* { ...a, ...b }
Spread(a, b) == [f \in (DOMAIN a) \cup (DOMAIN b) |-> IF f \in DOMAIN b THEN b[f] ELSE a[f]]

getDocument(docs, id) == IF id \in DOMAIN docs THEN Some(docs[id]) ELSE None

\* Variant: the record is created already in processing.
NewDocumentProcessing(insertDoc, t) ==
    Spread(insertDoc,
           [uploadedAt |-> t,
            processedAt |-> None,
            status |-> "processing",
            documentType |-> None,
            extractedData |-> None,
            ocrText |-> None,
            totalValue |-> None])

NewDocument(insertDoc, t) ==
    Spread(insertDoc,
           [uploadedAt |-> t,
            processedAt |-> None,
            status |-> "pending",
            documentType |-> None,
            extractedData |-> None,
            ocrText |-> None,
            totalValue |-> None])

createDocument(docs, id, insertDoc, t) == MapSet(docs, id, NewDocument(insertDoc, t))

\* Variant: the updates are written into every record.
updateDocumentEvery(docs, id, updates) ==
    IF id \notin DOMAIN docs
    THEN docs
    ELSE [k \in DOMAIN docs |-> Spread(docs[k], updates)]

\* Variant: a missing id is inserted instead of reported.
updateDocumentUpsert(docs, id, updates) ==
    IF id \notin DOMAIN docs
    THEN MapSet(docs, id, updates)
    ELSE MapSet(docs, id, Spread(docs[id], updates))

updateDocument(docs, id, updates) ==
    IF id \notin DOMAIN docs
    THEN docs
    ELSE MapSet(docs, id, Spread(docs[id], updates))

\* what updateDocument resolves to: undefined (None) for a missing id
updateDocumentReturn(docs, id, updates) ==
    IF id \notin DOMAIN docs
    THEN None
    ELSE Some(Spread(docs[id], updates))

deleteDocument(docs, id) == MapDelete(docs, id)

\* ------------------------------------------------------ DocumentProcessor
\* fs.promises.readFile succeeds (readOk) or rejects; both private helpers
\* turn a rejection into { success: false }.
processPDF(readOk) ==
    IF readOk
    THEN [success |-> TRUE, ocrText |-> Some("INVOICE Invoice #: INV-2024-001")]
    ELSE [success |-> FALSE, ocrText |-> None]

processImage(readOk) ==
    IF readOk
    THEN [success |-> TRUE, ocrText |-> Some("RECEIPT Store: QuickMart")]
    ELSE [success |-> FALSE, ocrText |-> None]

processDocument(mimeType, readOk) ==
    IF mimeType \in PdfTypes THEN processPDF(readOk)
    ELSE IF mimeType \in ImageTypes THEN processImage(readOk)
    ELSE [success |-> FALSE, ocrText |-> None]

\* --------------------------------------------------------------- AIService
\* What the text-generation backend does with one request:
\*   outage      the call rejects (network error, bad key, timeout)
\*   garbage     the content is not JSON, JSON.parse throws
\*   empty       the content is null or "", replaced by "{}"
\*   null        the content is the JSON literal null
\*   partial     a JSON object that lacks confidence, entities and summary,
\*               totalAmount 0
\*   wellformed  the requested object, totalAmount 12.505
BackendOutcomes ==
    {"outage", "garbage", "empty", "null", "partial", "offlist", "wellformed"}

Degraded ==
    [documentType |-> Some("other"),
     confidence |-> Some(0),
     entities |-> Some(<<>>),
     summary |-> Some("Analysis failed - unable to process document"),
     totalAmount |-> None]

EmptyObject ==
    [documentType |-> None, confidence |-> None, entities |-> None,
     summary |-> None, totalAmount |-> None]

\* JSON.parse(content || "{}") for the contents that parse
JSONParse(outcome) ==
    CASE outcome = "empty" -> Some(EmptyObject)
      [] outcome = "null" -> None
      [] outcome = "partial" ->
            Some([EmptyObject EXCEPT !.documentType = Some("receipt"),
                                     !.totalAmount = Some(0)])
      [] outcome = "offlist" ->
            Some([documentType |-> Some("bank_statement"),
                  confidence |-> Some(80),
                  entities |-> Some(<<>>),
                  summary |-> Some("Monthly statement"),
                  totalAmount |-> None])
      [] outcome = "wellformed" ->
            Some([documentType |-> Some("invoice"),
                  confidence |-> Some(95),
                  entities |-> Some(<<[type |-> "vendor", value |-> "TechCorp Inc.", confidence |-> 90]>>),
                  summary |-> Some("TechCorp invoice"),
                  totalAmount |-> Some(12505)])

\* Variant: the catch block of analyzeDocument returns an empty object.
analyzeDocumentEmptyFallback(outcome) ==
    IF outcome \in {"outage", "garbage"}
    THEN Some(EmptyObject)
    ELSE JSONParse(outcome)

\* The value analyzeDocument resolves to: None is JavaScript null.
analyzeDocument(outcome) ==
    IF outcome \in {"outage", "garbage"}
    THEN Some(Degraded)
    ELSE JSONParse(outcome)

\* Math.round(totalAmount * 100), totalAmount in thousandths
MathRound100(a) == (a + 5) \div 10

\* JavaScript truthiness of an optional number
Truthy(o) == o # None /\ TheValue(o) # 0

\* --------------------------------------------------- processDocumentAsync
\* A run is the activation of processDocumentAsync(documentId, filePath)
\* spawned by one upload; it is keyed by its documentId, and the file
\* path multer chose for the upload is modelled by the same number.
\*   pc        where the run stands: spawn, lookup, extracting, analyzing,
\*             cleanup, done
\*   mimeType  document.mimeType read by getDocument
\*   result    what processDocument resolved to
\*   backend   what the backend did with the analysis request ("none"
\*             while analyzeDocument has not been called)
\*   analysis  what analyzeDocument resolved to
\*   threw     the catch block ran
NewRun(id) ==
    [pc |-> "spawn", filePath |-> id, mimeType |-> None, result |-> None,
     backend |-> "none", analysis |-> None, threw |-> FALSE]

ProcessingUpdate == [status |-> "processing"]

\* Variant: the failed write omits the timestamp.
FailedUpdateNoTimestamp(t) == [status |-> "failed"]

\* Variant: the failed write also classifies the document.
FailedUpdateWithType(t) ==
    [status |-> "failed", processedAt |-> Some(t), documentType |-> Some("other")]

FailedUpdate(t) == [status |-> "failed", processedAt |-> Some(t)]

CompletedUpdate(result, analysis, t) ==
    [status |-> "completed",
     processedAt |-> Some(t),
     ocrText |-> result.ocrText,
     documentType |-> analysis.documentType,
     extractedData |-> Some(analysis),
     totalValue |-> IF Truthy(analysis.totalAmount)
                    THEN Some(MathRound100(TheValue(analysis.totalAmount)))
                    ELSE None]

\* Variant: the catch block only logs.
CatchBlockLogsOnly(docs, id, t) == docs

\* Variant: the catch block writes the status without the timestamp.
CatchBlockStatusOnly(docs, id, t) == updateDocument(docs, id, [status |-> "failed"])

\* catch (error) { await storage.updateDocument(documentId, {failed}) }
CatchBlock(docs, id, t) == updateDocument(docs, id, FailedUpdate(t))

\* ----------------------------------------------------- MemStorage queries
Users == {DefaultUser, "other-user"}

\* the order of getDocuments: uploadedAt descending; Array.sort is stable,
\* so equal timestamps keep the insertion order of the map (ascending id)
SortsBefore(docs, a, b) ==
    \/ docs[a].uploadedAt > docs[b].uploadedAt
    \/ docs[a].uploadedAt = docs[b].uploadedAt /\ a < b

RECURSIVE SortByUploadedAt(_, _)
SortByUploadedAt(docs, ids) ==
    IF ids = {}
    THEN <<>>
    ELSE LET first == CHOOSE a \in ids :
                          \A b \in ids \ {a} : SortsBefore(docs, a, b)
         IN <<first>> \o SortByUploadedAt(docs, ids \ {first})

\* Array.slice(0, n)
Slice0(seq, n) == SubSeq(seq, 1, IF n < Len(seq) THEN n ELSE Len(seq))

\* getDocuments(userId, limit): the ids of the records returned, in order;
\* limit is None when the argument is left out
getDocuments(docs, userId, limit) ==
    LET userDocs == SortByUploadedAt(docs,
                        {id \in DOMAIN docs : docs[id].uploadedBy = userId})
    IN IF Truthy(limit) THEN Slice0(userDocs, TheValue(limit)) ELSE userDocs

\* Array.filter(test).length over a sequence of ids; passing is the set
\* of ids that pass the test
CountIf(seq, passing) == Cardinality({i \in 1..Len(seq) : seq[i] \in passing})

\* today.setHours(0, 0, 0, 0): a day is DayLength clock ticks
DayLength == 2
Midnight(t) == (t \div DayLength) * DayLength

\* getDocumentStats(userId) called at time t
getDocumentStats(docs, userId, t) ==
    LET userDocs == getDocuments(docs, userId, None)
        today == Midnight(t)
        ofType(type) == {id \in DOMAIN docs : docs[id].documentType = Some(type)}
    IN [totalDocuments |-> Len(userDocs),
        processedToday |->
            CountIf(userDocs,
                    {id \in DOMAIN docs :
                        /\ docs[id].processedAt # None
                        /\ TheValue(docs[id].processedAt) >= today}),
        documentsByType |->
            [invoices |-> CountIf(userDocs, ofType("invoice")),
             contracts |-> CountIf(userDocs, ofType("contract")),
             receipts |-> CountIf(userDocs, ofType("receipt")),
             others |-> CountIf(userDocs,
                                {id \in DOMAIN docs : docs[id].documentType = None}
                                    \cup ofType("other"))]]

\* Math.random() in thousandths, and Math.floor(Math.random() * 100)
RandomDraws == {0, 499, 999}
Progress(random) == (random * 100) \div 1000

\* '...'.includes: the type shown for a media type
QueueType(mimeType) ==
    IF mimeType \in PdfTypes THEN "pdf"
    ELSE IF mimeType \in ImageTypes THEN "image" ELSE "other"

QueueEntry(docs, id, random) ==
    [id |-> id,
     filename |-> docs[id].originalName,
     status |-> docs[id].status,
     progress |-> Progress(random[id]),
     type |-> QueueType(docs[id].mimeType)]

\* Variant: every document of the user is listed, whatever its status.
getProcessingQueueAllStatuses(docs, userId, random) ==
    LET userDocs == getDocuments(docs, userId, None)
    IN [i \in 1..Len(userDocs) |-> QueueEntry(docs, userDocs[i], random)]

\* getProcessingQueue(userId); random[id] is the draw made for document id
getProcessingQueue(docs, userId, random) ==
    LET userDocs == getDocuments(docs, userId, None)
        IsProcessing(id) == docs[id].status = "processing"
        processingDocs == SelectSeq(userDocs, IsProcessing)
    IN [i \in 1..Len(processingDocs) |->
            QueueEntry(docs, processingDocs[i], random)]

\* GET /api/documents: limit is parsed from the query, page is not read
listDocuments(docs, userId, page, limit) == getDocuments(docs, userId, limit)

\* ------------------------------------------------------------ upload route
\* Variant: the filter accepts every file.
fileFilterAcceptAll(mimeType) == TRUE

\* multer fileFilter
fileFilter(mimeType) == mimeType \in AllowedTypes

\* documentData built by the handler from req.file and req.user
documentData(filename, mimeType) ==
    [filename |-> filename,
     originalName |-> OriginalName,
     mimeType |-> mimeType,
     size |-> FileSize,
     uploadedBy |-> DefaultUser]

\* body of the response to an accepted upload
UploadReply(id, originalName) ==
    [id |-> id, filename |-> originalName, status |-> "uploaded"]

\* what a client may send: no file, or a file of some media type
RequestTypes == UploadTypes \cup RejectedTypes
RequestFiles == {None} \cup {Some(m) : m \in RequestTypes}

Init ==
    /\ documents = EmptyMap
    /\ uploadReplies = EmptyMap
    /\ rejections = {}
    /\ clients = EmptyMap
    /\ websockets = EmptyMap
    /\ chatSessions = EmptyMap
    /\ chatMessages = EmptyMap
    /\ turns = EmptyMap
    /\ outbox = EmptyMap
    /\ microtasks = <<>>
    /\ malformed = <<>>
    /\ nextId = 1
    /\ runs = EmptyMap
    /\ files = {}
    /\ cleanupCalls = {}
    /\ now = 0

\* POST /api/documents/upload with a file multer accepted: the record is
\* created and the handler waits on createDocument's promise.
UploadDocument(mimeType) ==
    /\ nextId <= MaxDocs
    /\ fileFilter(mimeType)
    /\ documents' = createDocument(documents, nextId,
                        documentData(nextId, mimeType), now)
    /\ runs' = MapSet(runs, nextId, NewRun(nextId))
    /\ files' = files \cup {nextId}
    /\ nextId' = nextId + 1
    /\ UNCHANGED <<cleanupCalls, now>>
    /\ UNCHANGED <<uploadReplies, auxVars>>

\* processDocumentAsync is called: status write, up to its first await;
\* the handler then sends its response
StartProcessing(id) ==
    /\ id \in DOMAIN runs
    /\ runs[id].pc = "spawn"
    /\ documents' = updateDocument(documents, id, ProcessingUpdate)
    /\ runs' = [runs EXCEPT ![id].pc = "lookup"]
    /\ uploadReplies' = MapSet(uploadReplies, id, UploadReply(id, OriginalName))
    /\ UNCHANGED <<nextId, files, cleanupCalls, now>>
    /\ UNCHANGED auxVars

\* POST /api/documents/upload without a file, or with a file the filter
\* refuses (multer hands the error to the error handler, the route's
\* handler does not run)
RejectUpload(file) ==
    /\ IF file = None THEN TRUE ELSE ~fileFilter(TheValue(file))
    /\ rejections' = rejections \cup
           {[file |-> file,
             error |-> IF file = None THEN "No file uploaded" ELSE "Invalid file type"]}
    /\ UNCHANGED <<documents, nextId, runs, files, cleanupCalls, now, uploadReplies>>
    /\ UNCHANGED chatVars

\* getDocument; a missing record throws into the catch block, otherwise
\* processDocument is called and waits on readFile
LookupDocument(id) ==
    /\ id \in DOMAIN runs
    /\ runs[id].pc = "lookup"
    /\ IF getDocument(documents, id) = None
       THEN /\ documents' = CatchBlock(documents, id, now)
            /\ runs' = [runs EXCEPT ![id].pc = "done", ![id].threw = TRUE]
       ELSE /\ runs' = [runs EXCEPT ![id].pc = "extracting",
                                    ![id].mimeType = Some(documents[id].mimeType)]
            /\ UNCHANGED documents
    /\ UNCHANGED <<nextId, files, cleanupCalls, now>>
    /\ UNCHANGED <<uploadReplies, auxVars>>

\* Variant: result.success is not tested, analysis always follows.
ExtractionReturnsUnchecked(id, readOk) ==
    /\ id \in DOMAIN runs
    /\ runs[id].pc = "extracting"
    /\ readOk => runs[id].filePath \in files
    /\ runs' = [runs EXCEPT ![id].pc = "analyzing",
                            ![id].result = Some(processDocument(TheValue(runs[id].mimeType), readOk))]
    /\ UNCHANGED <<documents, nextId, files, cleanupCalls, now>>
    /\ UNCHANGED <<uploadReplies, auxVars>>

\* processDocument resolves; on success analyzeDocument is called and
\* waits on the backend, otherwise the failed write is made
ExtractionReturns(id, readOk) ==
    /\ id \in DOMAIN runs
    /\ runs[id].pc = "extracting"
    /\ readOk => runs[id].filePath \in files
    /\ LET result == processDocument(TheValue(runs[id].mimeType), readOk)
       IN IF result.success
          THEN /\ runs' = [runs EXCEPT ![id].pc = "analyzing",
                                       ![id].result = Some(result)]
               /\ UNCHANGED documents
          ELSE /\ runs' = [runs EXCEPT ![id].pc = "cleanup",
                                       ![id].result = Some(result)]
               /\ documents' = updateDocument(documents, id, FailedUpdate(now))
    /\ UNCHANGED <<nextId, files, cleanupCalls, now>>
    /\ UNCHANGED <<uploadReplies, auxVars>>

\* analyzeDocument resolves; reading a property of a null analysis throws
\* into the catch block, otherwise the completed write is made
AnalysisReturns(id, outcome) ==
    /\ id \in DOMAIN runs
    /\ runs[id].pc = "analyzing"
    /\ LET analysis == analyzeDocument(outcome)
       IN IF analysis = None
          THEN /\ documents' = CatchBlock(documents, id, now)
               /\ runs' = [runs EXCEPT ![id].pc = "done",
                                       ![id].backend = outcome,
                                       ![id].analysis = analysis,
                                       ![id].threw = TRUE]
          ELSE /\ documents' = updateDocument(documents, id,
                                   CompletedUpdate(TheValue(runs[id].result),
                                                   TheValue(analysis), now))
               /\ runs' = [runs EXCEPT ![id].pc = "cleanup",
                                       ![id].backend = outcome,
                                       ![id].analysis = analysis]
    /\ UNCHANGED <<nextId, files, cleanupCalls, now>>
    /\ UNCHANGED <<uploadReplies, auxVars>>

\* Variant: cleanupTempFile lets the unlink error escape into the catch
\* block of processDocumentAsync.
cleanupTempFileRethrows(id) ==
    /\ id \in DOMAIN runs
    /\ runs[id].pc = "cleanup"
    /\ cleanupCalls' = cleanupCalls \cup {runs[id].filePath}
    /\ documents' = CatchBlock(documents, id, now)
    /\ runs' = [runs EXCEPT ![id].pc = "done", ![id].threw = TRUE]
    /\ UNCHANGED <<nextId, files, now>>
    /\ UNCHANGED <<uploadReplies, auxVars>>

\* documentProcessor.cleanupTempFile(filePath): unlink, errors swallowed
cleanupTempFile(id) ==
    /\ id \in DOMAIN runs
    /\ runs[id].pc = "cleanup"
    /\ files' = files \ {runs[id].filePath}
    /\ cleanupCalls' = cleanupCalls \cup {runs[id].filePath}
    /\ runs' = [runs EXCEPT ![id].pc = "done"]
    /\ UNCHANGED <<documents, nextId, now>>
    /\ UNCHANGED <<uploadReplies, auxVars>>

\* DELETE /documents/{id}: removes the record and the stored file
DeleteDocument(id) ==
    /\ id \in DOMAIN documents
    /\ documents' = deleteDocument(documents, id)
    /\ files' = files \ {id}
    /\ UNCHANGED <<nextId, runs, cleanupCalls, now>>
    /\ UNCHANGED <<uploadReplies, auxVars>>

\* new Date() advances
Tick ==
    /\ now < MaxTime
    /\ now' = now + 1
    /\ UNCHANGED <<documents, nextId, runs, files, cleanupCalls>>
    /\ UNCHANGED <<uploadReplies, auxVars>>

RunStep(id) ==
    \/ StartProcessing(id)
    \/ LookupDocument(id)
    \/ \E readOk \in BOOLEAN : ExtractionReturns(id, readOk)
    \/ \E outcome \in BackendOutcomes : AnalysisReturns(id, outcome)
    \/ cleanupTempFile(id)

\* The requests and continuations of the server under src/
CodeNext ==
    \/ \E mimeType \in UploadTypes : UploadDocument(mimeType)
    \/ \E id \in DocIds : StartProcessing(id)
    \/ \E id \in DocIds : LookupDocument(id)
    \/ \E id \in DocIds, readOk \in BOOLEAN : ExtractionReturns(id, readOk)
    \/ \E id \in DocIds, outcome \in BackendOutcomes : AnalysisReturns(id, outcome)
    \/ \E id \in DocIds : cleanupTempFile(id)

CodeSpec == Init /\ [][CodeNext]_vars

\* The server with the deletion request the client issues
Next ==
    \/ CodeNext
    \/ \E id \in DocIds : DeleteDocument(id)

Spec == Init /\ [][Next]_vars

\* The same program with the clock advancing between steps
TimedNext == Next \/ Tick

TimedSpec == Init /\ [][TimedNext]_vars

\* While some run has a continuation that is ready (an adapter call has
\* returned or failed), the event loop eventually runs one; uploads and
\* deletions are requests that may or may not arrive.
Fairness == WF_vars(\E id \in DocIds : RunStep(id))

LiveSpec == Spec /\ Fairness

\* The server with every kind of upload request
UploadNext ==
    \/ \E mimeType \in RequestTypes : UploadDocument(mimeType)
    \/ \E file \in RequestFiles : RejectUpload(file)
    \/ \E id \in DocIds : StartProcessing(id)
    \/ \E id \in DocIds : LookupDocument(id)
    \/ \E id \in DocIds, readOk \in BOOLEAN : ExtractionReturns(id, readOk)
    \/ \E id \in DocIds, outcome \in BackendOutcomes : AnalysisReturns(id, outcome)
    \/ \E id \in DocIds : cleanupTempFile(id)
    \/ \E id \in DocIds : DeleteDocument(id)

UploadSpec == Init /\ [][UploadNext]_vars

\* ------------------------------------------------------------ properties
Rank(status) ==
    CASE status = "pending" -> 0
      [] status = "processing" -> 1
      [] status \in Terminal -> 2

DerivedNull(doc) ==
    /\ doc.totalValue = None
    /\ doc.documentType = None
    /\ doc.extractedData = None
    /\ doc.ocrText = None

\* C1: in every step, a stored document's status either stays as it is or
\* moves forward in pending -> processing -> (completed | failed); it
\* never goes back and never leaves completed or failed.
C1_StatusMonotonic ==
    [][\A id \in (DOMAIN documents) \cap (DOMAIN documents') :
          \/ documents'[id].status = documents[id].status
          \/ Rank(documents'[id].status) > Rank(documents[id].status)]_vars

C1_Witness ==
    \E a, b \in DOMAIN documents :
        /\ documents[a].status = "completed" /\ runs[a].pc = "done"
        /\ documents[b].status = "failed" /\ runs[b].pc = "done"

\* C2: under fair scheduling of the runs, a stored document in status
\* processing eventually is completed or failed (or its record has been
\* deleted): it does not stay in processing forever.
C2_NoStuckDocuments ==
    \A id \in DocIds :
        (id \in DOMAIN documents /\ documents[id].status = "processing")
            ~> (id \notin DOMAIN documents \/ documents[id].status \in Terminal)

C2_Witness ==
    \E id \in DOMAIN documents :
        /\ runs[id].pc = "done"
        /\ runs[id].result # None
        /\ ~TheValue(runs[id].result).success
        /\ documents[id].status \in Terminal

\* C3: updateDocument(id, {status: s}) called on a stored document whose
\* status is completed or failed returns and stores a record whose status
\* is the one it had.
C3_UpdateKeepsTerminalStatus ==
    \A id \in DOMAIN documents, s \in StatusValues :
        documents[id].status \in Terminal =>
            updateDocument(documents, id, [status |-> s])[id].status
                = documents[id].status

\* C4: for every stored document, processedAt is non-null exactly when the
\* status is completed or failed.
C4_ProcessedAtIffTerminal ==
    \A id \in DOMAIN documents :
        (documents[id].processedAt # None) <=> (documents[id].status \in Terminal)

C4_Witness ==
    \E a, b \in DOMAIN documents :
        /\ documents[a].status = "failed" /\ documents[a].processedAt # None
        /\ documents[b].status = "processing" /\ documents[b].processedAt = None

\* C5: a document that is pending, processing or failed has totalValue,
\* documentType, extractedData and ocrText all null, and a step that makes
\* one of them non-null is the step that sets the status to completed.
C5_DerivedNullUntilCompleted ==
    /\ [](\A id \in DOMAIN documents :
             documents[id].status # "completed" => DerivedNull(documents[id]))
    /\ [][\A id \in (DOMAIN documents) \cap (DOMAIN documents') :
             (DerivedNull(documents[id]) /\ ~DerivedNull(documents'[id]))
                => (documents[id].status # "completed"
                    /\ documents'[id].status = "completed")]_vars

C5_Witness ==
    \E a, b \in DOMAIN documents :
        /\ documents[a].status = "failed" /\ runs[a].threw
        /\ documents[b].status = "completed" /\ documents[b].ocrText # None

\* C6: when extraction succeeded and the backend was down or its reply
\* could not be parsed, the document is completed with documentType
\* "other", extractedData of confidence 0 and no entities, ocrText set
\* and totalValue null.
C6_DegradedStillCompletes ==
    \A id \in (DOMAIN runs) \cap (DOMAIN documents) :
        runs[id].backend \in {"outage", "garbage"} =>
            /\ documents[id].status = "completed"
            /\ documents[id].documentType = Some("other")
            /\ documents[id].extractedData # None
            /\ TheValue(documents[id].extractedData).confidence = Some(0)
            /\ TheValue(documents[id].extractedData).entities = Some(<<>>)
            /\ documents[id].ocrText # None
            /\ documents[id].totalValue = None

C6_Witness ==
    \E id \in DOMAIN documents :
        /\ runs[id].backend = "outage"
        /\ runs[id].pc = "done"
        /\ documents[id].status = "completed"

\* C7: whatever the backend did, the value analyzeDocument resolved to is
\* an object with a documentType, a confidence between 0 and 1 and a list
\* of entities.
ValidAnalysis(analysis) ==
    /\ analysis # None
    /\ TheValue(analysis).documentType # None
    /\ TheValue(analysis).confidence # None
    /\ TheValue(TheValue(analysis).confidence) \in 0..100
    /\ TheValue(analysis).entities # None

C7_AnalysisAlwaysValid ==
    \A id \in DOMAIN runs :
        runs[id].backend # "none" => ValidAnalysis(runs[id].analysis)

\* C8: a run whose extraction failed never called the analysis adapter,
\* did not enter the catch block, and left its document failed with
\* processedAt set and no derived field.
C8_ExtractionFailureStops ==
    \A id \in DOMAIN runs :
        (runs[id].result # None /\ ~TheValue(runs[id].result).success) =>
            /\ runs[id].pc \in {"cleanup", "done"}
            /\ runs[id].backend = "none"
            /\ id \in DOMAIN documents =>
                  /\ documents[id].status = "failed"
                  /\ documents[id].processedAt # None
                  /\ DerivedNull(documents[id])

C8_Witness ==
    \E id \in DOMAIN documents :
        /\ runs[id].result # None
        /\ ~TheValue(runs[id].result).success
        /\ runs[id].pc = "cleanup"
        /\ documents[id].status = "failed"

\* C9: a run that threw has ended, and its document, if still stored, is
\* failed with processedAt set.
C9_ExceptionEndsFailed ==
    \A id \in DOMAIN runs :
        runs[id].threw =>
            /\ runs[id].pc = "done"
            /\ id \in DOMAIN documents =>
                  /\ documents[id].status = "failed"
                  /\ documents[id].processedAt # None

C9_Witness ==
    \E id \in DOMAIN documents :
        /\ runs[id].threw
        /\ runs[id].backend = "null"
        /\ documents[id].status = "failed"
        /\ documents[id].processedAt # None

\* C10: a run that has ended has called cleanupTempFile on its file path.
C10_TempFileReleased ==
    \A id \in DOMAIN runs :
        runs[id].pc = "done" => runs[id].filePath \in cleanupCalls

\* ------------------------------------------------------------ chat service
\* MemStorage's promises are settled when they are awaited, so the code
\* after such an await runs as a microtask: the continuations of the turns
\* queue up in microtasks and run, one await at a time and in turn, before
\* any other event is handled.  The frames of one socket read are the
\* exception: 'message' is emitted for each of them back to back, so the
\* handlers of several messages of one connection can all start before the
\* first continuation runs.  The call of generateChatResponse waits for the
\* network; that is where turns interleave with other events.
ClientIds == 1..MaxClients
TurnIds == 1..MaxTurns

\* getActiveChatSession: the id of the first session, in insertion order,
\* of the user that is active
getActiveChatSession(sessions, userId) ==
    LET active == {id \in DOMAIN sessions :
                      sessions[id].userId = userId /\ sessions[id].isActive}
    IN IF active = {}
       THEN None
       ELSE Some(CHOOSE id \in active : \A other \in active : id <= other)

createChatSession(sessions, id, insertSession, t) ==
    MapSet(sessions, id, Spread(insertSession, [createdAt |-> t, isActive |-> TRUE]))

SortsBeforeByTimestamp(msgs, a, b) ==
    \/ msgs[a].timestamp < msgs[b].timestamp
    \/ msgs[a].timestamp = msgs[b].timestamp /\ a < b

RECURSIVE SortByTimestamp(_, _)
SortByTimestamp(msgs, ids) ==
    IF ids = {}
    THEN <<>>
    ELSE LET first == CHOOSE a \in ids :
                          \A b \in ids \ {a} : SortsBeforeByTimestamp(msgs, a, b)
         IN <<first>> \o SortByTimestamp(msgs, ids \ {first})

\* getChatMessages(sessionId): the ids of the messages returned, in order
getChatMessages(msgs, sessionId) ==
    SortByTimestamp(msgs, {id \in DOMAIN msgs : msgs[id].sessionId = sessionId})

createChatMessage(msgs, id, insertMessage, t) ==
    MapSet(msgs, id, Spread(insertMessage, [timestamp |-> t]))

\* Variant: the first n elements are taken.
SliceFirst(seq, n) ==
    SubSeq(seq, 1, IF Len(seq) > n THEN n ELSE Len(seq))

\* Array.slice(-n)
SliceLast(seq, n) ==
    SubSeq(seq, IF Len(seq) > n THEN Len(seq) - n + 1 ELSE 1, Len(seq))

\* what the completion request of generateChatResponse may do
ChatOutcomes == {"answer", "empty", "outage"}

\* Variant: a failed completion request surfaces as the error's text.
generateChatResponseLeaksError(outcome) ==
    CASE outcome = "answer" -> "Your invoices total $1,250."
      [] outcome = "empty" -> "I'm sorry, I couldn't generate a response."
      [] outcome = "outage" -> "Error: connect ECONNREFUSED"

\* generateChatResponse(message, context): what it returns, by what the
\* completion request did
generateChatResponse(outcome) ==
    CASE outcome = "answer" -> "Your invoices total $1,250."
      [] outcome = "empty" -> "I'm sorry, I couldn't generate a response."
      [] outcome = "outage" ->
            "I'm experiencing some technical difficulties. Please try again later."

addClient(cs, clientId, client) == MapSet(cs, clientId, client)

\* Variant: the entry stays.
removeClientKeeps(cs, clientId) == cs

removeClient(cs, clientId) == MapDelete(cs, clientId)

\* Variant: the frame goes to every registered open connection, as
\* broadcast does.
sendMessageToAll(clientId, frame) ==
    [c \in DOMAIN outbox |->
        IF c \in DOMAIN clients /\ websockets[c] = "OPEN"
        THEN Append(outbox[c], frame)
        ELSE outbox[c]]

\* sendMessage(clientId, frame): the outbox afterwards
sendMessage(clientId, frame) ==
    IF clientId \in DOMAIN clients /\ websockets[clientId] = "OPEN"
    THEN [outbox EXCEPT ![clientId] = Append(@, frame)]
    ELSE outbox

\* Frames and chat messages carry the turn they belong to (0 for the
\* greeting), so that the messages and replies of one turn can be told
\* from those of another.
Welcome ==
    [type |-> "message", turn |-> 0,
     content |-> "Hello! I can help you analyze your financial documents."]

MessageFrame(turn, aiResponse) ==
    [type |-> "message", turn |-> turn, content |-> aiResponse]

ErrorFrame(turn) ==
    [type |-> "error", turn |-> turn,
     content |-> "Sorry, I encountered an error processing your message. Please try again."]

\* the text a client sends
ChatText == "How much did I spend?"

UserMessage(sessionId, turn) ==
    [sessionId |-> sessionId, turn |-> turn, content |-> ChatText,
     isFromUser |-> TRUE, documentContext |-> None]

\* Variant: the reply is stored as a message from the user.
AssistantMessageFromUser(sessionId, turn, aiResponse, documentContext) ==
    [sessionId |-> sessionId, turn |-> turn, content |-> aiResponse,
     isFromUser |-> TRUE,
     documentContext |-> Some(Slice0(documentContext, 5))]

AssistantMessage(sessionId, turn, aiResponse, documentContext) ==
    [sessionId |-> sessionId, turn |-> turn, content |-> aiResponse,
     isFromUser |-> FALSE,
     documentContext |-> Some(Slice0(documentContext, 5))]

\* client.sessionId = session.id
SetClientSession(clientId, sessionId) ==
    [clients EXCEPT ![clientId].sessionId = Some(sessionId)]

\* Variant: the catch block only logs.
handleMessageCatchLogsOnly(clientId, turn) == outbox

\* catch block of handleMessage: the outbox afterwards
handleMessageCatch(clientId, turn) == sendMessage(clientId, ErrorFrame(turn))

\* what generateChatResponse is handed for one message of the history
HistoryEntry(msgs, id) ==
    [role |-> IF msgs[id].isFromUser THEN "user" ELSE "assistant",
     content |-> msgs[id].content]

\* A turn is one activation of handleMessage(clientId, message).
\*   pc               the call the turn is awaiting, or "done"
\*   rejected         the awaited promise rejects (the store is reached
\*                    through IStorage; MemStorage itself never rejects)
\*   userId           client.userId
\*   session          the id of the session the turn works with
\*   chatHistory      the message ids getChatMessages returned
\*   recentHistory    the entries handed to generateChatResponse
\*   documentContext  the document ids handed to generateChatResponse
\*   threw            the catch block ran
\* A turn that is done holds no locals.
NewTurn(clientId, userId) ==
    [clientId |-> clientId, pc |-> "getActiveChatSession", rejected |-> FALSE,
     userId |-> userId, session |-> None, chatHistory |-> <<>>,
     recentHistory |-> <<>>, documentContext |-> <<>>, threw |-> FALSE]

DoneTurn(clientId, threw) ==
    [NewTurn(clientId, DefaultUser) EXCEPT !.pc = "done", !.threw = threw]

NextTurnId == Cardinality(DOMAIN turns) + 1
NextClientId == Cardinality(DOMAIN websockets) + 1
NextSessionId == Cardinality(DOMAIN chatSessions) + 1
NextMessageId == Cardinality(DOMAIN chatMessages) + 1

pipelineVars == <<documents, nextId, runs, files, cleanupCalls, uploadReplies, rejections>>

\* no continuation is waiting to run
Idle == microtasks = <<>>

\* the continuations waiting are those of handlers just started by
\* messages of this connection
SameRead(clientId) ==
    \A i \in DOMAIN microtasks :
        /\ turns[microtasks[i]].pc = "getActiveChatSession"
        /\ turns[microtasks[i]].clientId = clientId

\* wss.on('connection')
Connect ==
    /\ Idle
    /\ NextClientId <= MaxClients
    /\ clients' = addClient(clients, NextClientId,
                            [userId |-> DefaultUser, sessionId |-> None])
    /\ websockets' = MapSet(websockets, NextClientId, "OPEN")
    /\ outbox' = MapSet(outbox, NextClientId, <<Welcome>>)
    /\ UNCHANGED <<chatSessions, chatMessages, turns, microtasks, malformed, now, pipelineVars>>

\* the connection goes down; no event has been delivered for it yet
CloseSocket(clientId) ==
    /\ Idle
    /\ clientId \in DOMAIN websockets
    /\ websockets[clientId] = "OPEN"
    /\ websockets' = [websockets EXCEPT ![clientId] = "CLOSING"]
    /\ UNCHANGED <<clients, chatSessions, chatMessages, turns, outbox, microtasks, malformed, now, pipelineVars>>

\* ws.on('error'): the close event is still to come
OnError(clientId) ==
    /\ Idle
    /\ clientId \in DOMAIN websockets
    /\ websockets[clientId] = "CLOSING"
    /\ clients' = removeClient(clients, clientId)
    /\ websockets' = [websockets EXCEPT ![clientId] = "ERRORED"]
    /\ UNCHANGED <<chatSessions, chatMessages, turns, outbox, microtasks, malformed, now, pipelineVars>>

\* ws.on('close'), after an error event or without one
OnClose(clientId) ==
    /\ Idle
    /\ clientId \in DOMAIN websockets
    /\ websockets[clientId] \in {"CLOSING", "ERRORED"}
    /\ clients' = removeClient(clients, clientId)
    /\ websockets' = [websockets EXCEPT ![clientId] = "CLOSED"]
    /\ UNCHANGED <<chatSessions, chatMessages, turns, outbox, microtasks, malformed, now, pipelineVars>>

\* Variant: the turn starts whether or not the client is registered.
handleMessageNoLookup(clientId, ok) ==
    /\ NextTurnId <= MaxTurns
    /\ turns' = MapSet(turns, NextTurnId,
           [NewTurn(clientId, DefaultUser) EXCEPT
               !.session = IF ok
                           THEN getActiveChatSession(chatSessions, DefaultUser)
                           ELSE None,
               !.rejected = ~ok])
    /\ microtasks' = Append(microtasks, NextTurnId)
    /\ UNCHANGED <<clients, chatSessions, chatMessages, outbox>>

\* handleMessage(clientId, message) up to its first await: the client is
\* looked up and getActiveChatSession is called; ok tells whether that
\* call resolves
handleMessage(clientId, ok) ==
    /\ NextTurnId <= MaxTurns
    /\ IF clientId \notin DOMAIN clients
       THEN /\ ok
            /\ turns' = MapSet(turns, NextTurnId, DoneTurn(clientId, FALSE))
            /\ UNCHANGED microtasks
       ELSE /\ turns' = MapSet(turns, NextTurnId,
                   [NewTurn(clientId, clients[clientId].userId) EXCEPT
                       !.session = IF ok
                                   THEN getActiveChatSession(chatSessions,
                                            clients[clientId].userId)
                                   ELSE None,
                       !.rejected = ~ok])
            /\ microtasks' = Append(microtasks, NextTurnId)
    /\ UNCHANGED <<clients, chatSessions, chatMessages, outbox>>

\* the kinds of inbound message: a chat message, a payload JSON.parse
\* refuses, a type other than "chat", a missing or empty content
MessageKinds == {"chat", "unparseable", "wrongType", "noContent"}

InvalidFormatFrame ==
    [type |-> "error", turn |-> 0, content |-> "Invalid message format"]

\* all messages received so far
MessagesReceived == Cardinality(DOMAIN turns) + Len(malformed)

\* ws.on('message')
OnMessage(clientId, kind, ok) ==
    /\ clientId \in DOMAIN websockets
    /\ websockets[clientId] = "OPEN"
    /\ SameRead(clientId)
    /\ MessagesReceived < MaxTurns
    /\ IF kind = "chat"
       THEN /\ handleMessage(clientId, ok)
            /\ UNCHANGED malformed
       ELSE /\ ok
            /\ malformed' = Append(malformed, [clientId |-> clientId, kind |-> kind])
            /\ outbox' = IF kind = "unparseable"
                         THEN [outbox EXCEPT ![clientId] = Append(@, InvalidFormatFrame)]
                         ELSE outbox
            /\ UNCHANGED <<clients, chatSessions, chatMessages, turns, microtasks>>
    /\ UNCHANGED <<websockets, now, pipelineVars>>

\* handleMessage called on the service, with any client id
CallHandleMessage(clientId) ==
    /\ Idle
    /\ handleMessage(clientId, TRUE)
    /\ UNCHANGED <<websockets, malformed, now, pipelineVars>>

\* the turn whose continuation runs next
Running(turn, pc) ==
    /\ microtasks # <<>>
    /\ Head(microtasks) = turn
    /\ turns[turn].pc = pc
    /\ ~turns[turn].rejected

\* client.sessionId is set and createChatMessage is called for the user
\* message
StoreUserMessage(turn, ok) ==
    LET sessionId == TheValue(turns[turn].session)
    IN /\ clients' = SetClientSession(turns[turn].clientId, sessionId)
       /\ chatMessages' =
             IF ok
             THEN createChatMessage(chatMessages, NextMessageId,
                                    UserMessage(sessionId, turn), now)
             ELSE chatMessages
       /\ turns' = [turns EXCEPT ![turn].pc = "createChatMessage",
                                 ![turn].rejected = ~ok]
       /\ microtasks' = Append(Tail(microtasks), turn)

\* getActiveChatSession has resolved
ActiveSessionReturns(turn, ok) ==
    /\ Running(turn, "getActiveChatSession")
    /\ IF turns[turn].session = None
       THEN /\ chatSessions' =
                  IF ok
                  THEN createChatSession(chatSessions, NextSessionId,
                                         [userId |-> turns[turn].userId], now)
                  ELSE chatSessions
            /\ turns' = [turns EXCEPT
                  ![turn].pc = "createChatSession",
                  ![turn].session = IF ok THEN Some(NextSessionId) ELSE None,
                  ![turn].rejected = ~ok]
            /\ microtasks' = Append(Tail(microtasks), turn)
            /\ UNCHANGED <<clients, chatMessages>>
       ELSE /\ StoreUserMessage(turn, ok)
            /\ UNCHANGED chatSessions
    /\ UNCHANGED <<websockets, outbox, malformed, now, pipelineVars>>

\* createChatSession has resolved
SessionCreated(turn, ok) ==
    /\ Running(turn, "createChatSession")
    /\ StoreUserMessage(turn, ok)
    /\ UNCHANGED <<websockets, chatSessions, outbox, malformed, now, pipelineVars>>

\* createChatMessage of the user message has resolved: getChatMessages
UserMessageStored(turn, ok) ==
    /\ Running(turn, "createChatMessage")
    /\ turns' = [turns EXCEPT
          ![turn].pc = "getChatMessages",
          ![turn].chatHistory =
              IF ok
              THEN getChatMessages(chatMessages, TheValue(turns[turn].session))
              ELSE <<>>,
          ![turn].rejected = ~ok]
    /\ microtasks' = Append(Tail(microtasks), turn)
    /\ UNCHANGED <<clients, websockets, chatSessions, chatMessages, outbox, malformed, now, pipelineVars>>

\* getChatMessages has resolved: slice(-10).map, then getDocuments
ChatMessagesReturn(turn, ok) ==
    /\ Running(turn, "getChatMessages")
    /\ LET recent == SliceLast(turns[turn].chatHistory, 10)
       IN turns' = [turns EXCEPT
             ![turn].pc = "getDocuments",
             ![turn].chatHistory = <<>>,
             ![turn].recentHistory =
                 [i \in 1..Len(recent) |-> HistoryEntry(chatMessages, recent[i])],
             ![turn].documentContext =
                 IF ok
                 THEN getDocuments(documents, turns[turn].userId, Some(50))
                 ELSE <<>>,
             ![turn].rejected = ~ok]
    /\ microtasks' = Append(Tail(microtasks), turn)
    /\ UNCHANGED <<clients, websockets, chatSessions, chatMessages, outbox, malformed, now, pipelineVars>>

\* getDocuments has resolved: generateChatResponse is called and waits
\* for the backend
DocumentsReturn(turn) ==
    /\ Running(turn, "getDocuments")
    /\ turns' = [turns EXCEPT ![turn].pc = "generateChatResponse"]
    /\ microtasks' = Tail(microtasks)
    /\ UNCHANGED <<clients, websockets, chatSessions, chatMessages, outbox, malformed, now, pipelineVars>>

\* the awaited store call has rejected: catch block of handleMessage
Catch(turn) ==
    /\ microtasks # <<>>
    /\ Head(microtasks) = turn
    /\ turns[turn].rejected
    /\ outbox' = handleMessageCatch(turns[turn].clientId, turn)
    /\ turns' = [turns EXCEPT ![turn] = DoneTurn(turns[turn].clientId, TRUE)]
    /\ microtasks' = Tail(microtasks)
    /\ UNCHANGED <<clients, websockets, chatSessions, chatMessages, malformed, now, pipelineVars>>

\* generateChatResponse has resolved: the reply is stored and sent, or the
\* store rejects it (ok is FALSE) and the catch block runs
ChatResponseReturns(turn, outcome, ok) ==
    /\ Idle
    /\ turn \in DOMAIN turns
    /\ turns[turn].pc = "generateChatResponse"
    /\ LET aiResponse == generateChatResponse(outcome)
           clientId == turns[turn].clientId
       IN IF ok
          THEN /\ chatMessages' =
                     createChatMessage(chatMessages, NextMessageId,
                         AssistantMessage(TheValue(turns[turn].session), turn,
                                          aiResponse, turns[turn].documentContext),
                         now)
               /\ outbox' = sendMessage(clientId, MessageFrame(turn, aiResponse))
               /\ turns' = [turns EXCEPT ![turn] = DoneTurn(clientId, FALSE)]
          ELSE /\ outbox' = handleMessageCatch(clientId, turn)
               /\ turns' = [turns EXCEPT ![turn] = DoneTurn(clientId, TRUE)]
               /\ UNCHANGED chatMessages
    /\ UNCHANGED <<clients, websockets, chatSessions, microtasks, malformed, now, pipelineVars>>

\* the continuations of a turn over MemStorage
TurnStep(turn) ==
    \/ ActiveSessionReturns(turn, TRUE)
    \/ SessionCreated(turn, TRUE)
    \/ UserMessageStored(turn, TRUE)
    \/ ChatMessagesReturn(turn, TRUE)
    \/ DocumentsReturn(turn)

\* the continuations of a turn over a store whose calls may reject
FaultyTurnStep(turn) ==
    \/ \E ok \in BOOLEAN : ActiveSessionReturns(turn, ok)
    \/ \E ok \in BOOLEAN : SessionCreated(turn, ok)
    \/ \E ok \in BOOLEAN : UserMessageStored(turn, ok)
    \/ \E ok \in BOOLEAN : ChatMessagesReturn(turn, ok)
    \/ DocumentsReturn(turn)
    \/ Catch(turn)

\* The chat service as built: connections, chat turns and the clock
ChatNext ==
    \/ Connect
    \/ \E clientId \in ClientIds : OnMessage(clientId, "chat", TRUE)
    \/ \E turn \in TurnIds : TurnStep(turn)
    \/ \E turn \in TurnIds, outcome \in ChatOutcomes :
          ChatResponseReturns(turn, outcome, TRUE)
    \/ Tick

ChatSpec == Init /\ [][ChatNext]_vars

\* The chat service over a store whose calls may reject, with connections
\* going down and inbound messages of every kind; the completion request
\* answers
FaultNext ==
    \/ Connect
    \/ \E clientId \in ClientIds : CloseSocket(clientId)
    \/ \E clientId \in ClientIds : OnError(clientId)
    \/ \E clientId \in ClientIds : OnClose(clientId)
    \/ \E clientId \in ClientIds, kind \in MessageKinds, ok \in BOOLEAN :
          OnMessage(clientId, kind, ok)
    \/ \E turn \in TurnIds : FaultyTurnStep(turn)
    \/ \E turn \in TurnIds, ok \in BOOLEAN :
          ChatResponseReturns(turn, "answer", ok)

FaultSpec == Init /\ [][FaultNext]_vars

\* The chat service called with any client id, with connections going down
ServiceNext ==
    \/ Connect
    \/ \E clientId \in ClientIds : CloseSocket(clientId)
    \/ \E clientId \in ClientIds : OnError(clientId)
    \/ \E clientId \in ClientIds : OnClose(clientId)
    \/ \E clientId \in ClientIds : CallHandleMessage(clientId)
    \/ \E turn \in TurnIds : TurnStep(turn)
    \/ \E turn \in TurnIds : ChatResponseReturns(turn, "answer", TRUE)

ServiceSpec == Init /\ [][ServiceNext]_vars

\* The chat service of a user who has chatted before: the active session
\* holds the messages of a number of finished turns
EarlierTurns == {0, 4, 5}

EarlierMessages(n) ==
    [id \in 1..(2 * n) |->
        Spread(IF id % 2 = 1
               THEN UserMessage(1, 0)
               ELSE AssistantMessage(1, 0, generateChatResponse("answer"), <<>>),
               [timestamp |-> 0])]

HistoryInit ==
    /\ \E n \in EarlierTurns :
          /\ chatMessages = EarlierMessages(n)
          /\ chatSessions =
                IF n = 0
                THEN EmptyMap
                ELSE createChatSession(EmptyMap, 1, [userId |-> DefaultUser], 0)
    /\ documents = EmptyMap
    /\ uploadReplies = EmptyMap
    /\ rejections = {}
    /\ clients = EmptyMap
    /\ websockets = EmptyMap
    /\ turns = EmptyMap
    /\ outbox = EmptyMap
    /\ microtasks = <<>>
    /\ malformed = <<>>
    /\ nextId = 1
    /\ runs = EmptyMap
    /\ files = {}
    /\ cleanupCalls = {}
    /\ now = 0

HistorySpec == HistoryInit /\ [][ChatNext]_vars

\* --------------------------------------------------- properties, continued

\* C11: once the record of a spawned run is gone, it stays gone, every
\* step of that run leaves the store as it is, and the write the run
\* would make resolves to not-found.
C11_WriteToDeletedIsNoOp ==
    [][\A id \in DOMAIN runs :
          id \notin DOMAIN documents =>
              /\ id \notin DOMAIN documents'
              /\ runs'[id] # runs[id] => documents' = documents
              /\ updateDocumentReturn(documents, id, FailedUpdate(now)) = None]_vars

C11_Witness ==
    \E a, b \in DOMAIN runs :
        /\ a \notin DOMAIN documents /\ b \notin DOMAIN documents
        /\ runs[a].pc = "done" /\ runs[a].backend = "wellformed"
        /\ runs[b].pc = "done" /\ runs[b].threw

\* C12: a step that adds a record adds exactly one, under an id no run
\* has used, with status pending and processedAt, documentType,
\* extractedData, ocrText and totalValue null, and changes no record
\* that was stored.
C12_CreateDocumentFresh ==
    [][\A id \in (DOMAIN documents') \ (DOMAIN documents) :
          /\ id \notin DOMAIN runs
          /\ (DOMAIN documents') \ (DOMAIN documents) = {id}
          /\ documents'[id].status = "pending"
          /\ documents'[id].processedAt = None
          /\ DerivedNull(documents'[id])
          /\ \A other \in DOMAIN documents :
                /\ other \in DOMAIN documents'
                /\ documents'[other] = documents[other]]_vars

C12_Witness ==
    \E a, b \in DOMAIN documents :
        /\ documents[a].status = "completed"
        /\ documents[b].status = "pending"
        /\ a < b

\* C13: createDocument called without one of owner, filename, media type
\* or size stores no record.
RequiredFields == {"uploadedBy", "filename", "mimeType", "size"}

Without(rec, field) == [f \in (DOMAIN rec) \ {field} |-> rec[f]]

C13_CreateRejectsMissingMetadata ==
    \A field \in RequiredFields :
        createDocument(documents, nextId,
                       Without(documentData(nextId, "application/pdf"), field), now)
            = documents

\* C14: every stored document has an accepted media type, and a step that
\* refuses an upload changes neither the stored documents nor the runs.
AcceptedMedia == {"application/pdf", "image/jpeg", "image/jpg", "image/png"}

C14_RejectedUploadCreatesNothing ==
    /\ [](\A id \in DOMAIN documents : documents[id].mimeType \in AcceptedMedia)
    /\ [][rejections' # rejections => (documents' = documents /\ runs' = runs)]_vars

C14_Witness ==
    /\ DOMAIN documents # {}
    /\ \E r \in rejections : r.file = Some("application/zip")
    /\ \E r \in rejections : r.file = None

\* C15: the status in the response to an upload is pending or processing.
C15_ReplyStatusProvisional ==
    \A id \in DOMAIN uploadReplies :
        uploadReplies[id].status \in {"pending", "processing"}

\* C16: in the statistics of any owner the four counts by type add up to
\* totalDocuments, and processedToday is at most totalDocuments.
C16_StatsCountsAddUp ==
    \A userId \in Users :
        LET stats == getDocumentStats(documents, userId, now)
            byType == stats.documentsByType
        IN /\ byType.invoices + byType.contracts + byType.receipts + byType.others
                  = stats.totalDocuments
           /\ stats.processedToday <= stats.totalDocuments

\* C17: whatever the random draws, the processing queue of an owner has
\* exactly one entry for each of that owner's documents in processing,
\* no other entry, and every progress is an integer from 0 to 100.
C17_QueueIsProcessingDocs ==
    \A userId \in Users, random \in [DOMAIN documents -> RandomDraws] :
        LET queue == getProcessingQueue(documents, userId, random)
        IN /\ \A i \in 1..Len(queue) :
                 /\ queue[i].id \in DOMAIN documents
                 /\ queue[i].progress \in 0..100
           /\ \A id \in DOMAIN documents :
                 Cardinality({i \in 1..Len(queue) : queue[i].id = id})
                     = IF /\ documents[id].uploadedBy = userId
                          /\ documents[id].status = "processing"
                       THEN 1 ELSE 0

C17_Witness ==
    /\ \E a, b \in DOMAIN documents :
          /\ documents[a].status = "processing"
          /\ documents[b].status = "completed"
    /\ \E random \in [DOMAIN documents -> RandomDraws] :
          LET queue == getProcessingQueue(documents, DefaultUser, random)
          IN Len(queue) = 1 /\ queue[1].progress = 99

\* C18: a listing with page p and limit n returns items (p-1)n+1 .. pn of
\* the owner's documents in upload order, newest first, and the empty
\* list when the page lies beyond the last one.
Pages == 1..(MaxDocs + 1)
Limits == 1..MaxDocs

C18_PageIsSliceOfSorted ==
    \A page \in Pages, limit \in Limits :
        LET all == getDocuments(documents, DefaultUser, None)
            from == (page - 1) * limit + 1
            to == IF page * limit < Len(all) THEN page * limit ELSE Len(all)
        IN listDocuments(documents, DefaultUser, page, Some(limit))
               = SubSeq(all, from, to)

\* the messages a turn has persisted, and the frames it has had sent
UserMessagesOf(turn) ==
    {m \in DOMAIN chatMessages :
        chatMessages[m].turn = turn /\ chatMessages[m].isFromUser}

AssistantMessagesOf(turn) ==
    {m \in DOMAIN chatMessages :
        chatMessages[m].turn = turn /\ ~chatMessages[m].isFromUser}

FramesOf(clientId, turn, type) ==
    {i \in 1..Len(outbox[clientId]) :
        outbox[clientId][i].type = type /\ outbox[clientId][i].turn = turn}

\* C19: a turn that has completed without error has persisted exactly one
\* user message and exactly one assistant message, both under the same
\* session id, the user message's timestamp not after the assistant's.
C19_TurnPersistsPair ==
    \A turn \in DOMAIN turns :
        (turns[turn].pc = "done" /\ ~turns[turn].threw) =>
            /\ Cardinality(UserMessagesOf(turn)) = 1
            /\ Cardinality(AssistantMessagesOf(turn)) = 1
            /\ \A u \in UserMessagesOf(turn), a \in AssistantMessagesOf(turn) :
                  /\ chatMessages[u].sessionId = chatMessages[a].sessionId
                  /\ chatMessages[u].timestamp <= chatMessages[a].timestamp

C19_Witness ==
    \E a, b \in DOMAIN turns :
        /\ turns[a].pc = "done" /\ ~turns[a].threw
        /\ turns[b].pc = "done" /\ ~turns[b].threw
        /\ turns[a].clientId # turns[b].clientId
        /\ \E u \in UserMessagesOf(a), v \in UserMessagesOf(b),
              r \in AssistantMessagesOf(a), w \in AssistantMessagesOf(b) :
                 u < v /\ v < r /\ r < w /\ chatMessages[u].timestamp < chatMessages[r].timestamp

C24_TotalValueFromAmount ==
    \A id \in DOMAIN documents :
        documents[id].status = "completed" =>
            LET analysis == TheValue(documents[id].extractedData)
            IN documents[id].totalValue =
                   IF analysis.totalAmount = None
                   THEN None
                   ELSE Some(MathRound100(TheValue(analysis.totalAmount)))

\* C25: a step that changes a stored document is a step of that
\* document's own run and changes no other stored document; a write to
\* one id leaves every other record as it is; and a completed document
\* holds the text and the analysis of its own run.
C25_UpdateTouchesOneRecord ==
    /\ [][\A id \in (DOMAIN documents) \cap (DOMAIN documents') :
             documents'[id] # documents[id] =>
                 /\ id \in DOMAIN runs /\ runs'[id] # runs[id]
                 /\ \A other \in ((DOMAIN documents) \cap (DOMAIN documents')) \ {id} :
                        documents'[other] = documents[other]]_vars
    /\ [](\A id \in DOMAIN documents, other \in DOMAIN documents :
             other # id =>
                 updateDocument(documents, id, FailedUpdate(now))[other]
                     = documents[other])
    /\ [](\A id \in DOMAIN documents :
             documents[id].status = "completed" =>
                 /\ documents[id].extractedData = runs[id].analysis
                 /\ documents[id].documentType
                        = TheValue(runs[id].analysis).documentType
                 /\ documents[id].ocrText = TheValue(runs[id].result).ocrText)

C25_Witness ==
    \E a, b \in DOMAIN documents :
        /\ a < b
        /\ documents[a].status = "completed"
        /\ documents[b].status = "completed"
        /\ runs[a].backend = "wellformed"
        /\ runs[b].backend = "outage"
        /\ documents[a].extractedData # documents[b].extractedData

\* C30: getDocuments(userId, limit) returns only documents of userId,
\* newest upload first, and at most limit of them for every limit from 0
\* upwards.
C30_ListingOwnedSortedCapped ==
    \A userId \in Users, limit \in 0..MaxDocs :
        LET result == getDocuments(documents, userId, Some(limit))
        IN /\ Len(result) <= limit
           /\ \A i \in 1..Len(result) :
                 /\ result[i] \in DOMAIN documents
                 /\ documents[result[i]].uploadedBy = userId
           /\ \A i, j \in 1..Len(result) :
                 i < j => documents[result[i]].uploadedAt
                              >= documents[result[j]].uploadedAt

\* C26: a step creates a chat session only when the user has no active
\* session, so a user never has more than one active session, and all
\* messages persisted by the user's turns are in that session.
C26_OneActiveSession ==
    /\ [](\A a, b \in DOMAIN chatSessions :
             (chatSessions[a].userId = chatSessions[b].userId
                 /\ chatSessions[a].isActive /\ chatSessions[b].isActive) => a = b)
    /\ [](\A m, n \in DOMAIN chatMessages :
             chatMessages[m].sessionId = chatMessages[n].sessionId)
    /\ [][\A id \in DOMAIN chatSessions' \ DOMAIN chatSessions :
             getActiveChatSession(chatSessions, chatSessions'[id].userId) = None]_vars

\* C21: the step that receives a malformed message (a payload that cannot
\* be parsed, a type other than "chat", a missing or empty content) sends
\* exactly one error frame to the connection it came from and nothing to
\* any other, and leaves that connection registered and open.
C21_MalformedAnswered ==
    [][Len(malformed') > Len(malformed) =>
          LET clientId == malformed'[Len(malformed')].clientId
          IN /\ Len(outbox'[clientId]) = Len(outbox[clientId]) + 1
             /\ outbox'[clientId][Len(outbox'[clientId])].type = "error"
             /\ \A other \in DOMAIN outbox \ {clientId} :
                    outbox'[other] = outbox[other]
             /\ clientId \in DOMAIN clients'
             /\ websockets'[clientId] = "OPEN"]_vars

\* C22: every frame of a turn is in the outbox of the connection the turn
\* came from, and the step that completes a turn leaves the outbox of
\* every other connection as it was.
C22_ReplyToOriginOnly ==
    /\ [](\A clientId \in DOMAIN outbox :
             \A i \in 1..Len(outbox[clientId]) :
                 outbox[clientId][i].turn # 0 =>
                     turns[outbox[clientId][i].turn].clientId = clientId)
    /\ [][\A turn \in DOMAIN turns :
             (turns[turn].pc # "done" /\ turns'[turn].pc = "done") =>
                 \A other \in DOMAIN outbox \ {turns[turn].clientId} :
                     outbox'[other] = outbox[other]]_vars

C22_Witness ==
    \E turn \in DOMAIN turns :
        /\ turns[turn].pc = "done"
        /\ FramesOf(turns[turn].clientId, turn, "message") # {}
        /\ \E other \in DOMAIN clients :
              /\ other # turns[turn].clientId
              /\ clients[other].userId = clients[turns[turn].clientId].userId
              /\ websockets[other] = "OPEN"
              /\ outbox[other] = <<Welcome>>

Connected == {c \in DOMAIN websockets : websockets[c] \in {"OPEN", "CLOSING"}}

\* C28: the registry holds exactly the ids of the connections for which
\* neither a close nor an error event has been delivered; a new
\* connection adds one id never used before; a close or an error event
\* removes the connection's id and no other; a close event after an error
\* event leaves the registry as it was.
C28_RegistryIsConnected ==
    /\ [](DOMAIN clients = Connected)
    /\ [][\A c \in DOMAIN websockets' \ DOMAIN websockets :
             /\ DOMAIN websockets' = DOMAIN websockets \cup {c}
             /\ c \notin DOMAIN clients
             /\ clients' = MapSet(clients, c, clients'[c])]_vars
    /\ [][\A c \in DOMAIN websockets :
             (websockets[c] = "CLOSING" /\ websockets'[c] \in {"ERRORED", "CLOSED"}) =>
                 /\ c \in DOMAIN clients
                 /\ clients' = MapDelete(clients, c)]_vars
    /\ [][\A c \in DOMAIN websockets :
             (websockets[c] = "ERRORED" /\ websockets'[c] = "CLOSED") =>
                 /\ c \notin DOMAIN clients
                 /\ clients' = clients]_vars

C28_Witness ==
    \E c, d \in DOMAIN websockets :
        /\ websockets[c] = "CLOSED" /\ c \notin DOMAIN clients
        /\ websockets[d] = "OPEN" /\ d \in DOMAIN clients
        /\ c < d

\* C29: a call of handleMessage with a client id that is not registered
\* ends at once: it creates no session, persists no message, queues no
\* continuation (so no store call and no completion request follows) and
\* sends nothing.  A turn whose client has been removed while the
\* completion request was out finishes without entering the catch block:
\* its assistant message is persisted and no frame is sent to anyone.
C29_UnknownClientIgnored ==
    /\ [][\A turn \in DOMAIN turns' \ DOMAIN turns :
             turns'[turn].clientId \notin DOMAIN clients =>
                 /\ turns'[turn] = DoneTurn(turns'[turn].clientId, FALSE)
                 /\ UNCHANGED <<chatSessions, chatMessages, outbox, microtasks, clients>>]_vars
    /\ [][\A turn \in DOMAIN turns :
             (turns[turn].pc = "generateChatResponse"
                 /\ turns'[turn].pc = "done"
                 /\ turns[turn].clientId \notin DOMAIN clients) =>
                     /\ ~turns'[turn].threw
                     /\ outbox' = outbox
                     /\ Cardinality(AssistantMessagesOf(turn)') = 1]_vars
    /\ [](\A turn \in DOMAIN turns :
             (turns[turn].pc = "done" /\ UserMessagesOf(turn) = {}) =>
                 /\ AssistantMessagesOf(turn) = {}
                 /\ \A clientId \in DOMAIN outbox, type \in {"message", "error"} :
                        FramesOf(clientId, turn, type) = {})

C29_Witness ==
    \E a, b \in DOMAIN turns :
        /\ turns[a].pc = "done" /\ turns[b].pc = "done"
        /\ turns[a].clientId \in DOMAIN websockets
        /\ turns[a].clientId \notin DOMAIN clients
        /\ UserMessagesOf(a) # {} /\ AssistantMessagesOf(a) # {}
        /\ FramesOf(turns[a].clientId, a, "message") = {}
        /\ UserMessagesOf(b) = {}

\* C27: the list getChatMessages returns to a turn holds exactly the
\* messages of the turn's session, in ascending order of timestamp; the
\* history the turn hands to generateChatResponse is the last ten entries
\* of that list, or all of it when it has fewer, in the same order, each
\* with the role "user" when the message is from the user and
\* "assistant" otherwise, and with the message's content; it never has
\* more than ten entries.
C27_HistoryIsLastTen ==
    /\ [](\A turn \in DOMAIN turns : Len(turns[turn].recentHistory) <= 10)
    /\ [][\A turn \in DOMAIN turns :
             (turns[turn].pc = "createChatMessage" /\ turns'[turn].pc = "getChatMessages") =>
                 LET list == turns'[turn].chatHistory
                 IN /\ {list[i] : i \in 1..Len(list)} =
                          {m \in DOMAIN chatMessages :
                              chatMessages[m].sessionId = TheValue(turns[turn].session)}
                    /\ \A i, j \in 1..Len(list) :
                          i < j => /\ list[i] # list[j]
                                   /\ chatMessages[list[i]].timestamp
                                         <= chatMessages[list[j]].timestamp]_vars
    /\ [][\A turn \in DOMAIN turns :
             (turns[turn].pc = "getChatMessages" /\ turns'[turn].pc = "getDocuments") =>
                 LET list == turns[turn].chatHistory
                     history == turns'[turn].recentHistory
                     skipped == Len(list) - Len(history)
                 IN /\ Len(history) = IF Len(list) > 10 THEN 10 ELSE Len(list)
                    /\ \A i \in 1..Len(history) :
                          /\ history[i].content = chatMessages[list[skipped + i]].content
                          /\ history[i].role = "user" <=>
                                chatMessages[list[skipped + i]].isFromUser
                          /\ history[i].role = "assistant" <=>
                                ~chatMessages[list[skipped + i]].isFromUser]_vars

C27_Witness ==
    \E turn \in DOMAIN turns :
        /\ turns[turn].pc = "generateChatResponse"
        /\ Len(turns[turn].recentHistory) = 10
        /\ Cardinality({m \in DOMAIN chatMessages :
                           chatMessages[m].sessionId = TheValue(turns[turn].session)}) > 10
        /\ turns[turn].recentHistory[10].role = "user"
        /\ turns[turn].recentHistory[9].role = "assistant"
        /\ \E m \in UserMessagesOf(turn) : chatMessages[m].timestamp > 0

====
